---- MODULE Spec2Model ----
(***************************************************************************)
(* BLE_Serial: the COMPort listener registry and its poll thread           *)
(* (src/src/com.cpp), the Windows GATT characteristic registry and the     *)
(* WaitWithTimeout adapter (src/unnamed/part_000), and the bridge          *)
(* orchestrator Connect (src/unnamed/part_001).                            *)
(***************************************************************************)
EXTENDS Integers, Sequences, FiniteSets, TLC

\* Total number of Subscribe calls made on one registry.
MaxSubs == 3
\* Largest byte value the port or the characteristic produces.
MaxByte == 2
\* The timeout passed to WaitWithTimeout, in clock ticks.
Timeout == 2
\* The clock stops here.
MaxTime == 4
\* Largest error code an operation fails with.
MaxCode == 2
\* Total number of connections one device creates.
MaxConns == 3

\* The non-empty chunks a Read or a notification can produce.
Chunks == {<<b>> : b \in 1..MaxByte} \cup {<<1, MaxByte>>}

Listeners == 1..MaxSubs

VARIABLES
    \* ---- COMPort members (bluetooth.hpp 932-940)
    m_callbacks,    \* std::vector of listeners, here their identities
    m_exiting,      \* bool m_exiting
    m_mutex,        \* owner of m_mutex: "none", "client", "poll"
    m_handle,       \* "open" or "null"
    joinable,       \* m_subscriberThread.joinable()
    \* ---- the poll thread (the lambda of COMPort::Subscribe)
    ppc,            \* its position; "none" before it is started
    data,           \* the chunk read in this iteration
    idx,            \* position of the range-for over m_callbacks
    snapshot,       \* m_callbacks when the chunk was read
    delivered,      \* <<listener, chunk>> invocations made for this chunk
    \* ---- the thread calling the COMPort's public functions
    cpc,            \* its position
    carg,           \* argument of the call in progress
    cret,           \* the last call's result: <<"ok", v>> or <<"throw">>
    inDtor,         \* the call in progress is made by ~COMPort
    \* ---- process
    crashed,        \* std::terminate was called, or undefined behaviour aborted
    \* ---- bookkeeping of what the calls returned
    ids,            \* listener -> id Subscribe returned for it (-1: none)
    nextL,          \* identity of the next listener to subscribe
    spawned,        \* number of poll threads started so far
    lastUnsub,      \* <<listener meant, m_callbacks before, m_callbacks after>>
    zeroed,         \* Unsubscribe has brought the listener count back to zero
    resub,          \* a Subscribe has returned after that
    faulted,        \* a listener threw or a thread could not be started
    closedWrites,   \* sides a forwarded write reached after they were closed
    tunnel,         \* the last notification and the last chunk read in a bridge,
                    \* the Write calls made for each, and the threads that wrote
    m_refreshRate,  \* std::chrono::milliseconds m_refreshRate
    sleepFor,       \* the duration given to the sleep_for in progress; 0: none
    readFailed,     \* the ReadFile before the sleep in progress failed
    rateLog,        \* the last SetRefreshRate and GetRefreshRate that returned
    closeCalls,     \* the CloseHandle calls made, by the function that made them
    \* ---- WindowsBluetoothGattCharacteristic and its connection
    m_subscribers,  \* std::vector<winrt::event_token>, here listener identities
    handlers,       \* tokens registered on the ValueChanged event
    cccd,           \* the device's configuration descriptor: "None" or "Notify"
    connOpen,       \* the BLE connection is open
    \* ---- bookkeeping of the calls made on the characteristic directly
    chtok,          \* number of listeners passed to Subscribe so far
    chids,          \* listener -> id Subscribe returned for it (-1: none)
    chlast,         \* the last call: what it found, whether it wrote the
                    \* descriptor, whether that write failed, whether it threw
    \* ---- Connect (the bridge orchestrator) and the process around it
    bpc,            \* position of Connect; "none" when no bridge is run
    sigintReceived, \* the atomic flag set by SigintHandler
    steps,          \* the teardown steps executed so far, in order
    unwindTo,       \* where an exception in flight ends: "exit1" or "terminate"
    exitStatus,     \* what the run returned; -1 while it runs
    missing,        \* the lookup that came back empty; "none" if none did
    \* ---- WindowsBluetoothDevice and the connections it has opened
    m_openConnection, \* std::shared_ptr m_openConnection: a connection, 0: null
    conns,          \* the connections created so far: [open, timeout]
    dlast,          \* the last call on the device and what it returned
    \* ---- the timeouts of a bridge
    timeoutArg,     \* the timeout argument of Connect, in seconds
    m_timeout,      \* m_timeout of Connect's connection and of its services and
                    \* characteristics; 0 before the connection exists
    applied,        \* <<operation, timeout>> for the BLE operations Connect made
    \* ---- one call of WaitWithTimeout and the operation it waits for
    wpc,            \* position of the calling thread
    wstatus,        \* task.Status()
    wcode,          \* task.ErrorCode()
    wreg,           \* the Completed handler is registered
    wcb,            \* the Completed handler: "idle" or "done"
    wmutex,         \* owner of the local mutex: "none" or "waiter"
    wnow,           \* system_clock::now()
    wdeadline,      \* the local deadline
    woutcome,       \* what the call returned or threw
    wendStatus,     \* the status the switch read
    wendTime,       \* the time at which the switch read it
    wcompletedAt,   \* the time at which the operation ended; -1 if it has not
    wdangling       \* the handler ran after the call's locals were destroyed

portVars == <<m_callbacks, m_exiting, m_mutex, m_handle, joinable, ppc, data, idx,
              snapshot, delivered, cpc, carg, cret, inDtor, crashed, ids, nextL,
              spawned, lastUnsub, zeroed, resub, faulted>>

charCalls == <<chtok, chids, chlast>>

charVars == <<m_subscribers, handlers, cccd, connOpen, charCalls>>

bridgeVars == <<bpc, sigintReceived, steps, unwindTo, exitStatus, missing>>

waitVars == <<wpc, wstatus, wcode, wreg, wcb, wmutex, wnow, wdeadline, woutcome,
              wendStatus, wendTime, wcompletedAt, wdangling>>

fwdVars == <<closedWrites, tunnel>>

rateVars == <<m_refreshRate, sleepFor, readFailed, rateLog>>

devVars == <<m_openConnection, conns, dlast>>

toVars == <<timeoutArg, m_timeout, applied>>

vars == <<portVars, fwdVars, rateVars, closeCalls, charVars, bridgeVars, waitVars,
          devVars, toVars>>

-----------------------------------------------------------------------------
\* Helpers on sequences

\* vector::erase(begin() + id): ids are 0-based positions
EraseAt(s, id) == [i \in 1..(Len(s) - 1) |-> IF i <= id THEN s[i] ELSE s[i + 1]]

Range(s) == {s[i] : i \in 1..Len(s)}

\* condition_variable::notify_all as seen by the poll thread
NotifyAll(p) == IF p = "waiting" THEN "wake" ELSE p

-----------------------------------------------------------------------------
\* Nothing has been forwarded.
NoTraffic == [nin |-> <<>>, nout |-> <<>>, rin |-> <<>>, rout |-> <<>>,
              writers |-> {}]

\* std::chrono::milliseconds m_refreshRate { 100 }
DefaultRefreshRate == 100

\* The refresh rates a caller sets.
Rates == {50, 200}

\* Neither SetRefreshRate nor GetRefreshRate has returned yet: set is the rate
\* in force, got the result of the last GetRefreshRate (0: none) and at the
\* rate that was in force when it returned.
NoRateCall == [set |-> DefaultRefreshRate, got |-> 0, at |-> 0]

\* COMPort, after construction (the handle is open, no thread, no listener)

InitPort(h) ==
    /\ m_callbacks = <<>>
    /\ m_exiting = FALSE
    /\ m_mutex = "none"
    /\ m_handle = h
    /\ joinable = FALSE
    /\ ppc = "none"
    /\ data = <<>>
    /\ idx = 0
    /\ snapshot = <<>>
    /\ delivered = <<>>
    /\ cpc = "idle"
    /\ carg = 0
    /\ cret = <<"ok", 0>>
    /\ inDtor = FALSE
    /\ crashed = FALSE
    /\ ids = [l \in Listeners |-> -1]
    /\ nextL = 1
    /\ spawned = 0
    /\ lastUnsub = <<0, <<>>, <<>>>>
    /\ zeroed = FALSE
    /\ resub = FALSE
    /\ faulted = FALSE
    /\ closedWrites = {}
    /\ tunnel = NoTraffic
    /\ m_refreshRate = DefaultRefreshRate
    /\ sleepFor = 0
    /\ readFailed = FALSE
    /\ rateLog = NoRateCall
    /\ closeCalls = <<>>

\* No call has been made on the characteristic.
NoCall == [op |-> "none", before |-> <<>>, hbefore |-> {}, dbefore |-> "None",
           wrote |-> FALSE, failed |-> FALSE, threw |-> FALSE]

InitCharCalls ==
    /\ chtok = 0
    /\ chids = [l \in Listeners |-> -1]
    /\ chlast = NoCall

\* No characteristic is in use.
InitChar ==
    /\ m_subscribers = <<>>
    /\ handlers = {}
    /\ cccd = "None"
    /\ connOpen = FALSE
    /\ InitCharCalls

\* constexpr std::chrono::seconds DefaultTimeout (bluetooth.hpp 28)
DefaultTimeout == 1

\* The timeouts, in seconds, a caller passes: the library's default and the
\* default of the connect command.
Timeouts == {DefaultTimeout, 5}

\* No call has been made on the device: ret is the connection returned (0:
\* none, an empty optional or an exception), had the connections that were
\* open when the call was made.
NoDeviceCall == [op |-> "none", ret |-> 0, had |-> {}]

\* A WindowsBluetoothDevice after construction (part_000 375-377): the
\* shared_ptr m_openConnection is default-initialised.
InitDevice ==
    /\ m_openConnection = 0
    /\ conns = <<>>
    /\ dlast = NoDeviceCall

\* No bridge is run: no BLE operation is made with a timeout.
InitNoTimeouts ==
    /\ timeoutArg = 0
    /\ m_timeout = 0
    /\ applied = {}

\* No WaitWithTimeout call is followed.
InitNoWait ==
    /\ wpc = "none"
    /\ wstatus = "Started"
    /\ wcode = 0
    /\ wreg = FALSE
    /\ wcb = "idle"
    /\ wmutex = "none"
    /\ wnow = 0
    /\ wdeadline = 0
    /\ woutcome = <<"none">>
    /\ wendStatus = "none"
    /\ wendTime = 0
    /\ wcompletedAt = -1
    /\ wdangling = FALSE

\* No bridge is run: the COMPort is used directly.
InitNoBridge ==
    /\ bpc = "none"
    /\ sigintReceived = FALSE
    /\ steps = <<>>
    /\ unwindTo = "exit1"
    /\ exitStatus = -1
    /\ missing = "none"

-----------------------------------------------------------------------------
\* COMPort::Subscribe (com.cpp 35-73)

\* The caller enters Subscribe with a new listener.
CallSubscribe ==
    /\ bpc = "none"
    /\ ~crashed /\ cpc = "idle" /\ nextL <= MaxSubs
    /\ cpc' = "sub_lock"
    /\ carg' = nextL
    /\ UNCHANGED <<m_callbacks, m_exiting, m_mutex, m_handle, joinable, ppc, data,
                   idx, snapshot, delivered, cret, inDtor, crashed, ids, nextL,
                   spawned, lastUnsub, zeroed, resub, faulted, fwdVars, rateVars, closeCalls>>
    /\ UNCHANGED <<charVars, bridgeVars, waitVars, devVars, toVars>>

\* Subscribe that starts a thread on every call.
StartsThreadAlways(j) == TRUE

\* Lines 41-70: a thread is started only if m_subscriberThread is not joinable.
\* threadOk = FALSE: the std::thread constructor throws std::system_error.
StartsThread(j) == ~j

\* Lines 37-72 under the lock: append, notify_all, maybe start the thread,
\* return size() - 1.
SubscribeBody(threadOk) ==
    /\ ~crashed /\ cpc = "sub_lock" /\ m_mutex = "none"
    /\ m_callbacks' = Append(m_callbacks, carg)
    /\ nextL' = nextL + 1
    /\ IF StartsThread(joinable)
       THEN IF threadOk
            THEN /\ joinable' = TRUE
                 /\ ppc' = "lock"
                 /\ spawned' = spawned + 1
                 /\ cret' = <<"ok", Len(m_callbacks)>>
                 /\ ids' = [ids EXCEPT ![carg] = Len(m_callbacks)]
                 /\ resub' = zeroed
                 /\ UNCHANGED faulted
            ELSE /\ cret' = <<"throw">>
                 /\ faulted' = TRUE
                 /\ ppc' = NotifyAll(ppc)
                 /\ UNCHANGED <<joinable, spawned, ids, resub>>
       ELSE /\ threadOk
            /\ ppc' = NotifyAll(ppc)
            /\ cret' = <<"ok", Len(m_callbacks)>>
            /\ ids' = [ids EXCEPT ![carg] = Len(m_callbacks)]
            /\ resub' = zeroed
            /\ UNCHANGED <<joinable, spawned, faulted>>
    /\ cpc' = "idle"
    /\ UNCHANGED <<m_exiting, m_mutex, m_handle, data, idx, snapshot, delivered,
                   carg, inDtor, crashed, lastUnsub, zeroed, fwdVars, rateVars, closeCalls>>
    /\ UNCHANGED <<charVars, bridgeVars, waitVars, devVars, toVars>>

-----------------------------------------------------------------------------
\* COMPort::Unsubscribe (com.cpp 75-80)

\* The caller enters Unsubscribe with the id Subscribe returned for listener l,
\* which is still registered.
CallUnsubscribe(l) ==
    /\ bpc = "none"
    /\ ~crashed /\ cpc = "idle"
    /\ l \in Range(m_callbacks) /\ ids[l] >= 0
    /\ cpc' = "unsub_lock"
    /\ carg' = ids[l]
    /\ lastUnsub' = <<l, <<>>, <<>>>>
    /\ UNCHANGED <<m_callbacks, m_exiting, m_mutex, m_handle, joinable, ppc, data,
                   idx, snapshot, delivered, cret, inDtor, crashed, ids, nextL,
                   spawned, zeroed, resub, faulted, fwdVars, rateVars, closeCalls>>
    /\ UNCHANGED <<charVars, bridgeVars, waitVars, devVars, toVars>>

\* m_callbacks.erase(m_callbacks.begin() + id). Erasing at or past end() is
\* undefined: the build leaves the vector alone, drops its last element, or
\* aborts (ub).
Erase(s, id, ub) ==
    IF id < Len(s) THEN EraseAt(s, id)
    ELSE IF ub = "droplast" /\ Len(s) > 0 THEN SubSeq(s, 1, Len(s) - 1)
    ELSE s

\* Unsubscribe that erases without taking m_mutex.
UnsubscribeNoLock(m) == TRUE

\* Line 77: std::unique_lock lock { m_mutex } blocks until the mutex is free.
UnsubscribeLocks(m) == m = "none"

UnsubscribeBody(ub) ==
    /\ ~crashed /\ cpc = "unsub_lock" /\ UnsubscribeLocks(m_mutex)
    /\ m_callbacks' = Erase(m_callbacks, carg, ub)
    /\ crashed' = (carg >= Len(m_callbacks) /\ ub = "abort")
    /\ ppc' = NotifyAll(ppc)
    /\ lastUnsub' = <<lastUnsub[1], m_callbacks, m_callbacks'>>
    /\ ids' = [ids EXCEPT ![lastUnsub[1]] = -1]
    /\ zeroed' = (m_callbacks' = <<>>)
    /\ resub' = FALSE
    /\ cret' = <<"ok", 0>>
    /\ cpc' = "idle"
    /\ UNCHANGED <<m_exiting, m_mutex, m_handle, joinable, data, idx, snapshot,
                   delivered, carg, inDtor, nextL, spawned, faulted, fwdVars, rateVars, closeCalls>>
    /\ UNCHANGED <<charVars, bridgeVars, waitVars, devVars, toVars>>

-----------------------------------------------------------------------------
\* COMPort::UnsubscribeAll (com.cpp 82-92), COMPort::Close, ~COMPort

CallUnsubscribeAll ==
    /\ bpc = "none"
    /\ ~crashed /\ cpc = "idle"
    /\ cpc' = "ua_write"
    /\ UNCHANGED <<m_callbacks, m_exiting, m_mutex, m_handle, joinable, ppc, data,
                   idx, snapshot, delivered, carg, cret, inDtor, crashed, ids,
                   nextL, spawned, lastUnsub, zeroed, resub, faulted, fwdVars, rateVars, closeCalls>>
    /\ UNCHANGED <<charVars, bridgeVars, waitVars, devVars, toVars>>

\* ~COMPort (com.cpp 29-33): UnsubscribeAll(); Close();
CallDestructor ==
    /\ bpc = "none"
    /\ ~crashed /\ cpc = "idle"
    /\ cpc' = "ua_write"
    /\ inDtor' = TRUE
    /\ UNCHANGED <<m_callbacks, m_exiting, m_mutex, m_handle, joinable, ppc, data,
                   idx, snapshot, delivered, carg, cret, crashed, ids, nextL,
                   spawned, lastUnsub, zeroed, resub, faulted, fwdVars, rateVars, closeCalls>>
    /\ UNCHANGED <<charVars, bridgeVars, waitVars, devVars, toVars>>

\* Line 84: m_exiting = true, written before the lock is taken. The poll
\* thread reads m_exiting under the lock, so the two accesses race; a racing
\* read returns the old or the new value, which is the read happening before
\* or after this step.
UnsubscribeAllFlag ==
    /\ ~crashed /\ cpc = "ua_write"
    /\ m_exiting' = TRUE
    /\ cpc' = "ua_lock"
    /\ UNCHANGED <<m_callbacks, m_mutex, m_handle, joinable, ppc, data, idx,
                   snapshot, delivered, carg, cret, inDtor, crashed, ids, nextL,
                   spawned, lastUnsub, zeroed, resub, faulted, fwdVars, rateVars, closeCalls>>
    /\ UNCHANGED <<charVars, bridgeVars, waitVars, devVars, toVars>>

\* Where the caller is once UnsubscribeAll has returned.
AfterUnsubscribeAll(d) == IF d THEN "dtor_close" ELSE "idle"

\* Line 89: join() is called with the lock still held.
JoinHolds == "client"

\* UnsubscribeAll that never joins.
JoinsNever(j) == FALSE

\* UnsubscribeAll that joins without asking joinable().
JoinsAlways(j) == TRUE

\* Line 89: if (m_subscriberThread.joinable())
JoinsThread(j) == j

\* Lines 85-89: lock, clear, notify_all, then join if joinable.
UnsubscribeAllBody ==
    /\ ~crashed /\ cpc = "ua_lock" /\ m_mutex = "none"
    /\ m_callbacks' = <<>>
    /\ ppc' = NotifyAll(ppc)
    /\ ids' = [l \in Listeners |-> -1]
    /\ zeroed' = FALSE
    /\ resub' = FALSE
    /\ IF JoinsThread(joinable)
       THEN /\ cpc' = "ua_join"
            /\ m_mutex' = JoinHolds
            /\ UNCHANGED cret
       ELSE /\ cpc' = AfterUnsubscribeAll(inDtor)
            /\ cret' = <<"ok", 0>>
            /\ UNCHANGED m_mutex
    /\ UNCHANGED <<m_exiting, m_handle, joinable, data, idx, snapshot, delivered,
                   carg, inDtor, crashed, nextL, spawned, lastUnsub, faulted,
                   fwdVars, rateVars, closeCalls>>
    /\ UNCHANGED <<charVars, bridgeVars, waitVars, devVars, toVars>>

\* Line 90: join() returns once the thread function has returned; the lock is
\* released when UnsubscribeAll returns.
UnsubscribeAllJoin ==
    /\ ~crashed /\ cpc = "ua_join" /\ ppc = "done"
    /\ joinable' = FALSE
    /\ ppc' = "none"
    /\ m_mutex' = "none"
    /\ cpc' = AfterUnsubscribeAll(inDtor)
    /\ cret' = <<"ok", 0>>
    /\ UNCHANGED <<m_callbacks, m_exiting, m_handle, data, idx, snapshot,
                   delivered, carg, inDtor, crashed, ids, nextL, spawned,
                   lastUnsub, zeroed, resub, faulted, fwdVars, rateVars, closeCalls>>
    /\ UNCHANGED <<charVars, bridgeVars, waitVars, devVars, toVars>>

\* COMPort::Close (bluetooth.hpp 1126-1132)
CloseHandleOf(h) == "null"

\* Close calls the OS whatever the handle is.
CloseCallsAlways(h) == TRUE

\* bluetooth.hpp 1128: if (m_handle != nullptr)
CloseCallsOS(h) == h # "null"

\* bluetooth.hpp 1128-1131: the handle Close() leaves.
HandleAfterClose(h) == IF CloseCallsOS(h) THEN CloseHandleOf(h) ELSE h

\* bluetooth.hpp 1129: the CloseHandle calls made once `who` has run Close().
CallsAfterClose(c, h, who) == IF CloseCallsOS(h) THEN Append(c, who) ELSE c

CallClose ==
    /\ bpc = "none"
    /\ ~crashed /\ cpc = "idle"
    /\ m_handle' = HandleAfterClose(m_handle)
    /\ closeCalls' = CallsAfterClose(closeCalls, m_handle, "Close")
    /\ UNCHANGED <<m_callbacks, m_exiting, m_mutex, joinable, ppc, data, idx,
                   snapshot, delivered, cpc, carg, cret, inDtor, crashed, ids,
                   nextL, spawned, lastUnsub, zeroed, resub, faulted, fwdVars,
                   rateVars>>
    /\ UNCHANGED <<charVars, bridgeVars, waitVars, devVars, toVars>>

\* The Close() of ~COMPort; afterwards the object is gone.
DestructorClose ==
    /\ ~crashed /\ cpc = "dtor_close"
    /\ m_handle' = HandleAfterClose(m_handle)
    /\ closeCalls' = CallsAfterClose(closeCalls, m_handle, "~COMPort")
    /\ cpc' = "destroyed"
    /\ UNCHANGED <<m_callbacks, m_exiting, m_mutex, joinable, ppc, data, idx,
                   snapshot, delivered, carg, cret, inDtor, crashed, ids, nextL,
                   spawned, lastUnsub, zeroed, resub, faulted, fwdVars, rateVars>>
    /\ UNCHANGED <<charVars, bridgeVars, waitVars, devVars, toVars>>

-----------------------------------------------------------------------------
\* COMPort::SetRefreshRate and GetRefreshRate (com.cpp 94-104)

CallSetRefreshRate(r) ==
    /\ bpc = "none"
    /\ ~crashed /\ cpc = "idle"
    /\ cpc' = "rate_set"
    /\ carg' = r
    /\ UNCHANGED <<m_callbacks, m_exiting, m_mutex, m_handle, joinable, ppc, data,
                   idx, snapshot, delivered, cret, inDtor, crashed, ids, nextL,
                   spawned, lastUnsub, zeroed, resub, faulted, fwdVars, rateVars,
                   closeCalls>>
    /\ UNCHANGED <<charVars, bridgeVars, waitVars, devVars, toVars>>

\* The refresh rate is accessed without m_mutex.
RateNoLock(m) == TRUE

\* Lines 96 and 102: std::unique_lock<std::mutex> lock { m_mutex }
RateLocks(m) == m = "none"

\* Lines 96-98: the rate is stored under the lock, which the return releases.
SetRefreshRateBody ==
    /\ ~crashed /\ cpc = "rate_set" /\ RateLocks(m_mutex)
    /\ m_refreshRate' = carg
    /\ rateLog' = [rateLog EXCEPT !.set = carg]
    /\ cpc' = "idle"
    /\ UNCHANGED <<m_callbacks, m_exiting, m_mutex, m_handle, joinable, ppc, data,
                   idx, snapshot, delivered, carg, cret, inDtor, crashed, ids,
                   nextL, spawned, lastUnsub, zeroed, resub, faulted, fwdVars,
                   sleepFor, readFailed, closeCalls>>
    /\ UNCHANGED <<charVars, bridgeVars, waitVars, devVars, toVars>>

CallGetRefreshRate ==
    /\ bpc = "none"
    /\ ~crashed /\ cpc = "idle"
    /\ cpc' = "rate_get"
    /\ UNCHANGED <<m_callbacks, m_exiting, m_mutex, m_handle, joinable, ppc, data,
                   idx, snapshot, delivered, carg, cret, inDtor, crashed, ids,
                   nextL, spawned, lastUnsub, zeroed, resub, faulted, fwdVars,
                   rateVars, closeCalls>>
    /\ UNCHANGED <<charVars, bridgeVars, waitVars, devVars, toVars>>

\* Lines 102-103: the rate is read under the lock and returned.
GetRefreshRateBody ==
    /\ ~crashed /\ cpc = "rate_get" /\ RateLocks(m_mutex)
    /\ rateLog' = [rateLog EXCEPT !.got = m_refreshRate, !.at = rateLog.set]
    /\ cpc' = "idle"
    /\ UNCHANGED <<m_callbacks, m_exiting, m_mutex, m_handle, joinable, ppc, data,
                   idx, snapshot, delivered, carg, cret, inDtor, crashed, ids,
                   nextL, spawned, lastUnsub, zeroed, resub, faulted, fwdVars,
                   m_refreshRate, sleepFor, readFailed, closeCalls>>
    /\ UNCHANGED <<charVars, bridgeVars, waitVars, devVars, toVars>>

-----------------------------------------------------------------------------
\* The poll thread: the lambda of COMPort::Subscribe (com.cpp 42-69)

\* Line 46: std::unique_lock lock { m_mutex } at the top of every iteration.
PollLock ==
    /\ ~crashed /\ ppc = "lock" /\ m_mutex = "none"
    /\ m_mutex' = "poll"
    /\ ppc' = "chk_exit"
    /\ UNCHANGED <<m_callbacks, m_exiting, m_handle, joinable, data, idx, snapshot,
                   delivered, cpc, carg, cret, inDtor, crashed, ids, nextL,
                   spawned, lastUnsub, zeroed, resub, faulted, fwdVars, rateVars, closeCalls>>
    /\ UNCHANGED <<charVars, bridgeVars, waitVars, devVars, toVars>>

\* Lines 48-50: if (m_exiting) return;
PollCheckExit ==
    /\ ~crashed /\ ppc = "chk_exit"
    /\ IF m_exiting
       THEN ppc' = "done" /\ m_mutex' = "none"
       ELSE ppc' = "chk_empty" /\ UNCHANGED m_mutex
    /\ UNCHANGED <<m_callbacks, m_exiting, m_handle, joinable, data, idx, snapshot,
                   delivered, cpc, carg, cret, inDtor, crashed, ids, nextL,
                   spawned, lastUnsub, zeroed, resub, faulted, fwdVars, rateVars, closeCalls>>
    /\ UNCHANGED <<charVars, bridgeVars, waitVars, devVars, toVars>>

\* Lines 52-55: if (m_callbacks.empty()) { m_condition.wait(lock); break; }
PollCheckEmpty ==
    /\ ~crashed /\ ppc = "chk_empty"
    /\ IF m_callbacks = <<>>
       THEN ppc' = "waiting" /\ m_mutex' = "none"
       ELSE ppc' = "read" /\ UNCHANGED m_mutex
    /\ UNCHANGED <<m_callbacks, m_exiting, m_handle, joinable, data, idx, snapshot,
                   delivered, cpc, carg, cret, inDtor, crashed, ids, nextL,
                   spawned, lastUnsub, zeroed, resub, faulted, fwdVars, rateVars, closeCalls>>
    /\ UNCHANGED <<charVars, bridgeVars, waitVars, devVars, toVars>>

\* condition_variable::wait may wake without a notify.
PollSpuriousWake ==
    /\ ~crashed /\ ppc = "waiting"
    /\ ppc' = "wake"
    /\ UNCHANGED <<m_callbacks, m_exiting, m_mutex, m_handle, joinable, data, idx,
                   snapshot, delivered, cpc, carg, cret, inDtor, crashed, ids,
                   nextL, spawned, lastUnsub, zeroed, resub, faulted, fwdVars, rateVars, closeCalls>>
    /\ UNCHANGED <<charVars, bridgeVars, waitVars, devVars, toVars>>

\* Where the thread goes when wait() returns. Line 54: break, which leaves the
\* loop and ends the thread function.
AfterWait == "done"

\* Lines 53-54: wait() re-acquires the lock before it returns; then break.
PollWake ==
    /\ ~crashed /\ ppc = "wake" /\ m_mutex = "none"
    /\ ppc' = AfterWait
    /\ UNCHANGED <<m_callbacks, m_exiting, m_mutex, m_handle, joinable, data, idx,
                   snapshot, delivered, cpc, carg, cret, inDtor, crashed, ids,
                   nextL, spawned, lastUnsub, zeroed, resub, faulted, fwdVars, rateVars, closeCalls>>
    /\ UNCHANGED <<charVars, bridgeVars, waitVars, devVars, toVars>>

\* COMPort::Read (bluetooth.hpp 1118-1124): ReadFile on the handle; a null
\* handle reads nothing.
ReadResults(h) == IF h = "open" THEN {<<>>} \cup Chunks ELSE {<<>>}

\* bluetooth.hpp 1121-1123: whether the ReadFile that returned r may have
\* failed. Its BOOL result is dropped and only the byte count is returned,
\* which ReadFile sets to zero before any work: a failed read (always so on a
\* null handle, possibly so on an open one) returns 0 like an empty read.
ReadFailures(h, r) ==
    IF Len(r) # 0 THEN {FALSE} ELSE IF h = "open" THEN BOOLEAN ELSE {TRUE}

\* A loop that does not sleep after an empty read.
SleepNone(rate) == 0

\* Line 59: std::this_thread::sleep_for(m_refreshRate)
SleepDuration(rate) == rate

\* Lines 57-63: read == 0 goes to the sleep, otherwise data is built.
PollRead(r) ==
    /\ ~crashed /\ ppc = "read"
    /\ r \in ReadResults(m_handle)
    /\ IF Len(r) = 0
       THEN /\ ppc' = "sleep"
            /\ sleepFor' = SleepDuration(m_refreshRate)
            /\ readFailed' \in ReadFailures(m_handle, r)
            /\ UNCHANGED <<data, idx, snapshot, delivered, tunnel>>
       ELSE /\ ppc' = "deliver"
            /\ UNCHANGED <<sleepFor, readFailed>>
            /\ data' = r
            /\ idx' = 1
            /\ snapshot' = m_callbacks
            /\ delivered' = <<>>
            /\ tunnel' = IF bpc = "none" THEN tunnel
                         ELSE [tunnel EXCEPT !.rin = r, !.rout = <<>>]
    /\ UNCHANGED <<m_callbacks, m_exiting, m_mutex, m_handle, joinable, cpc, carg,
                   cret, inDtor, crashed, ids, nextL, spawned, lastUnsub, zeroed,
                   resub, faulted, closedWrites, m_refreshRate, rateLog,
                   closeCalls>>
    /\ UNCHANGED <<charVars, bridgeVars, waitVars, devVars, toVars>>

\* Lines 59-60: sleep_for(m_refreshRate); continue; the lock of line 46 is
\* held during the sleep and released when the iteration ends.
PollSleep ==
    /\ ~crashed /\ ppc = "sleep"
    /\ ppc' = "lock"
    /\ m_mutex' = "none"
    /\ sleepFor' = 0
    /\ readFailed' = FALSE
    /\ UNCHANGED <<m_callbacks, m_exiting, m_handle, joinable, data, idx, snapshot,
                   delivered, cpc, carg, cret, inDtor, crashed, ids, nextL,
                   spawned, lastUnsub, zeroed, resub, faulted, fwdVars,
                   m_refreshRate, rateLog, closeCalls>>
    /\ UNCHANGED <<charVars, bridgeVars, waitVars, devVars, toVars>>

\* What the callback is called with (line 66: callback(data), data by value).
CallbackArg(d) == d

\* What the port's listener does in a bridge (part_001 138-140): it calls
\* characteristic->Write(data); "char" records a write made after
\* connection->Close().
ListenerWrites(b, open) == IF b # "none" /\ ~open THEN {"char"} ELSE {}

\* The Write calls the port's listener of a bridge makes (part_001 138-140):
\* characteristic->Write(data), once, with the vector it was called with.
PortListenerWrite(d) == <<d>>

\* Lines 65-67: one iteration of the range-for. The callback returns (out =
\* "ok") or throws; nothing on the thread catches, so a throw ends the process
\* in std::terminate.
PollDeliver(out) ==
    /\ ~crashed /\ ppc = "deliver"
    /\ delivered' = Append(delivered, <<m_callbacks[idx], CallbackArg(data)>>)
    /\ IF out = "throw"
       THEN /\ crashed' = TRUE
            /\ faulted' = TRUE
            /\ ppc' = "terminated"
            /\ UNCHANGED <<idx, m_mutex>>
       ELSE /\ UNCHANGED <<crashed, faulted>>
            /\ IF idx < Len(m_callbacks)
               THEN idx' = idx + 1 /\ UNCHANGED <<ppc, m_mutex>>
               ELSE ppc' = "lock" /\ m_mutex' = "none" /\ UNCHANGED idx
    /\ closedWrites' = closedWrites \cup ListenerWrites(bpc, connOpen)
    /\ tunnel' = IF bpc = "none" THEN tunnel
                 ELSE [tunnel EXCEPT
                          !.rout = tunnel.rout \o PortListenerWrite(CallbackArg(data)),
                          !.writers = tunnel.writers \cup {"poll"}]
    /\ UNCHANGED <<m_callbacks, m_exiting, m_handle, joinable, data, snapshot,
                   cpc, carg, cret, inDtor, ids, nextL, spawned, lastUnsub,
                   zeroed, resub, rateVars, closeCalls>>
    /\ UNCHANGED <<charVars, bridgeVars, waitVars, devVars, timeoutArg, m_timeout>>
    /\ applied' = IF bpc = "none" THEN applied
                  ELSE applied \cup {<<"write", m_timeout>>}

PollStep ==
    \/ PollLock
    \/ PollCheckExit
    \/ PollCheckEmpty
    \/ PollSpuriousWake
    \/ PollWake
    \/ \E r \in {<<>>} \cup Chunks : PollRead(r)
    \/ PollSleep
    \/ \E out \in {"ok", "throw"} : PollDeliver(out)

\* The calls a user of the COMPort makes, one at a time from one thread.
PortCall ==
    \/ CallSubscribe
    \/ \E l \in Listeners : CallUnsubscribe(l)
    \/ CallUnsubscribeAll
    \/ CallClose
    \/ CallDestructor

PortBody ==
    \/ \E ok \in BOOLEAN : SubscribeBody(ok)
    \/ \E ub \in {"nothing", "droplast", "abort"} : UnsubscribeBody(ub)
    \/ UnsubscribeAllFlag
    \/ UnsubscribeAllBody
    \/ UnsubscribeAllJoin
    \/ DestructorClose

PortNext == PortCall \/ PortBody \/ PollStep

Init ==
    /\ InitPort("open") /\ InitChar /\ InitNoBridge /\ InitNoWait
    /\ InitDevice /\ InitNoTimeouts

Next == PortNext

Spec == Init /\ [][Next]_vars

\* A COMPort whose caller subscribes listeners and sets and reads the refresh
\* rate while the poll thread runs. No listener is removed, so the thread never
\* reaches the wait of line 53.
RateCall ==
    \/ CallSubscribe
    \/ \E ok \in BOOLEAN : SubscribeBody(ok)
    \/ \E r \in Rates : CallSetRefreshRate(r)
    \/ SetRefreshRateBody
    \/ CallGetRefreshRate
    \/ GetRefreshRateBody

RatePollStep ==
    \/ PollLock
    \/ PollCheckExit
    \/ PollCheckEmpty
    \/ \E r \in {<<>>} \cup Chunks : PollRead(r)
    \/ PollSleep
    \/ \E out \in {"ok", "throw"} : PollDeliver(out)

NextRate == RateCall \/ RatePollStep

SpecRate == Init /\ [][NextRate]_vars

\* What locking m_mutex does on the thread that already owns it: std::mutex is
\* not recursive, so the behaviour is undefined; the thread blocks on itself
\* for ever, or the implementation detects it and the process ends.
RelockOutcomes == {"deadlock", "abort"}

\* Lines 65-67 with a listener that calls Subscribe, Unsubscribe,
\* SetRefreshRate or GetRefreshRate of the same COMPort: each begins with
\* std::unique_lock lock { m_mutex } (lines 37, 77, 96, 102) while the poll
\* thread holds the lock of line 46.
PollListenerCallsPort(out) ==
    /\ ~crashed /\ ppc = "deliver" /\ m_mutex = "poll"
    /\ out \in RelockOutcomes
    /\ ppc' = "relock"
    /\ crashed' = (out = "abort")
    /\ UNCHANGED <<m_callbacks, m_exiting, m_mutex, m_handle, joinable, data, idx,
                   snapshot, delivered, cpc, carg, cret, inDtor, ids, nextL,
                   spawned, lastUnsub, zeroed, resub, faulted, fwdVars, rateVars,
                   closeCalls>>
    /\ UNCHANGED <<charVars, bridgeVars, waitVars, devVars, toVars>>

\* A COMPort whose listeners may call back into it.
NextReentrant ==
    \/ NextRate
    \/ \E out \in RelockOutcomes : PollListenerCallsPort(out)

SpecReentrant == Init /\ [][NextReentrant]_vars

\* The steps the poll thread takes when it is scheduled. A wake-up of
\* m_condition.wait without a notify is not among them: nothing guarantees it.
PollProgress ==
    \/ PollLock
    \/ PollCheckExit
    \/ PollCheckEmpty
    \/ PollWake
    \/ \E r \in {<<>>} \cup Chunks : PollRead(r)
    \/ PollSleep
    \/ \E out \in {"ok", "throw"} : PollDeliver(out)

\* The poll thread is scheduled whenever it can run.
SpecFair == Spec /\ WF_vars(PollProgress)

-----------------------------------------------------------------------------
\* WindowsBluetoothGattCharacteristic (part_000 579-636). w is the outcome of
\* the descriptor write made through WaitWithTimeout: "ok", or "fail" when the
\* status is not Success or WaitWithTimeout throws; either failure leaves the
\* function as a BluetoothException.

\* Subscribe, lines 582-588: the descriptor is written only for the first
\* subscriber.
SubscribeWritesDescriptor(subs) == subs = <<>>

\* Subscribe, lines 590-601: the handler is registered and its token appended.
CharSubscribed(subs, tok) == Append(subs, tok)

\* UnsubscribeAll, lines 624-628: every token is revoked, the vector cleared.
CharHandlersAfterUnsubscribeAll(h, subs) == h \ Range(subs)

\* The descriptor after a write of value v with outcome w.
DescriptorAfter(old, v, w) == IF w = "ok" THEN v ELSE old

\* Subscribe with the handler registered before the descriptor is written.
HandlersRegisteredFirst(h, tok, enabled) == h \cup {tok}

\* Subscribe, lines 582-597: the ValueChanged handler is registered at line 590,
\* which is reached only if the write of lines 583-587 did not throw.
HandlersAfterSubscribe(h, tok, enabled) == IF enabled THEN h \cup {tok} ELSE h

\* Everything of the COMPort but the process's crashed flag.
portQuiet == <<m_callbacks, m_exiting, m_mutex, m_handle, joinable, ppc, data, idx,
               snapshot, delivered, cpc, carg, cret, inDtor, ids, nextL, spawned,
               lastUnsub, zeroed, resub, faulted>>

\* A characteristic of an open connection, used directly by one thread.
InitCharacteristic ==
    /\ InitPort("null") /\ InitNoBridge /\ InitNoWait
    /\ InitDevice /\ InitNoTimeouts
    /\ m_subscribers = <<>>
    /\ handlers = {}
    /\ cccd = "None"
    /\ connOpen = TRUE
    /\ InitCharCalls

\* Subscribe (lines 579-603) with a new listener.
ChSubscribe(w) ==
    LET writes == SubscribeWritesDescriptor(m_subscribers)
        tok == chtok + 1
        enabled == ~writes \/ w = "ok"
    IN  /\ ~crashed /\ chtok < MaxSubs
        /\ writes \/ w = "ok"
        /\ cccd' = IF writes THEN DescriptorAfter(cccd, "Notify", w) ELSE cccd
        /\ handlers' = HandlersAfterSubscribe(handlers, tok, enabled)
        /\ m_subscribers' = IF enabled THEN CharSubscribed(m_subscribers, tok)
                            ELSE m_subscribers
        /\ chids' = IF enabled THEN [chids EXCEPT ![tok] = Len(m_subscribers)]
                    ELSE chids
        /\ chtok' = tok
        /\ chlast' = [op |-> "Subscribe", before |-> m_subscribers,
                      hbefore |-> handlers, dbefore |-> cccd,
                      wrote |-> writes, failed |-> writes /\ w = "fail",
                      threw |-> ~enabled]
        /\ UNCHANGED <<portVars, fwdVars, rateVars, closeCalls, connOpen, bridgeVars, waitVars, devVars, toVars>>

\* Unsubscribe, line 608: the token at position id is revoked. Reading
\* m_subscribers[id] past the end is undefined; the token read there is no
\* registered one.
CharRevoked(subs, id) == IF id < Len(subs) THEN {subs[id + 1]} ELSE {}

\* Unsubscribe, lines 611-617: the descriptor is written when the vector has
\* become empty.
UnsubscribeWritesDescriptor(subs) == subs = <<>>

\* Unsubscribe (lines 605-619) with the id Subscribe returned for listener t,
\* which is still registered. The erase of line 609 is the one of COMPort.
ChUnsubscribe(t, w, ub) ==
    LET id == chids[t]
        after == Erase(m_subscribers, id, ub)
        aborts == id >= Len(m_subscribers) /\ ub = "abort"
        writes == ~aborts /\ UnsubscribeWritesDescriptor(after)
    IN  /\ ~crashed
        /\ t \in Range(m_subscribers) /\ id >= 0
        /\ id < Len(m_subscribers) => ub = "nothing"
        /\ writes \/ w = "ok"
        /\ handlers' = handlers \ CharRevoked(m_subscribers, id)
        /\ m_subscribers' = after
        /\ crashed' = aborts
        /\ cccd' = IF writes THEN DescriptorAfter(cccd, "None", w) ELSE cccd
        /\ chids' = [chids EXCEPT ![t] = -1]
        /\ chlast' = [op |-> "Unsubscribe", before |-> m_subscribers,
                      hbefore |-> handlers, dbefore |-> cccd,
                      wrote |-> writes, failed |-> writes /\ w = "fail",
                      threw |-> writes /\ w = "fail"]
        /\ UNCHANGED <<portQuiet, fwdVars, rateVars, closeCalls, connOpen, chtok, bridgeVars,
                       waitVars, devVars, toVars>>

\* UnsubscribeAll, line 630: the descriptor is written on every call.
UnsubscribeAllWritesDescriptor(subs) == TRUE

\* UnsubscribeAll (lines 621-636).
ChUnsubscribeAll(w) ==
    LET writes == UnsubscribeAllWritesDescriptor(m_subscribers)
    IN  /\ ~crashed
        /\ writes \/ w = "ok"
        /\ handlers' = CharHandlersAfterUnsubscribeAll(handlers, m_subscribers)
        /\ m_subscribers' = <<>>
        /\ cccd' = IF writes THEN DescriptorAfter(cccd, "None", w) ELSE cccd
        /\ chids' = [l \in Listeners |-> -1]
        /\ chlast' = [op |-> "UnsubscribeAll", before |-> m_subscribers,
                      hbefore |-> handlers, dbefore |-> cccd,
                      wrote |-> writes, failed |-> writes /\ w = "fail",
                      threw |-> writes /\ w = "fail"]
        /\ UNCHANGED <<portVars, fwdVars, rateVars, closeCalls, connOpen, chtok, bridgeVars,
                       waitVars, devVars, toVars>>

NextChar ==
    \/ \E w \in {"ok", "fail"} : ChSubscribe(w)
    \/ \E t \in Listeners, w \in {"ok", "fail"},
          ub \in {"nothing", "droplast", "abort"} : ChUnsubscribe(t, w, ub)
    \/ \E w \in {"ok", "fail"} : ChUnsubscribeAll(w)

SpecChar == InitCharacteristic /\ [][NextChar]_vars

-----------------------------------------------------------------------------
\* WindowsBluetoothDevice (part_000 390-422) used directly, and the connections
\* it has created.

\* The connections that are open (IsOpen, part_000 440-443).
OpenConns == {c \in 1..Len(conns) : conns[c].open}

\* Lines 392-400 and 405-411: the connection m_openConnection holds if it
\* holds one that is open; 0 otherwise.
KeptConnection(m) == IF m # 0 /\ conns[m].open THEN m ELSE 0

\* GetOpenConnection (lines 390-401); 0 stands for std::nullopt.
DevGetOpenConnection ==
    /\ dlast' = [op |-> "get", ret |-> KeptConnection(m_openConnection),
                 had |-> OpenConns]
    /\ UNCHANGED <<m_openConnection, conns>>
    /\ UNCHANGED <<portVars, fwdVars, rateVars, closeCalls, charVars, bridgeVars,
                   waitVars, toVars>>

\* OpenConnection(timeout) (lines 403-422). A kept open connection is returned;
\* otherwise m_openConnection is reset, the device is connected and its
\* services are discovered (ok = FALSE: one of the two throws), and the new
\* connection is returned by line 420 without being stored in
\* m_openConnection.
DevOpenConnection(timeout, ok) ==
    /\ Len(conns) < MaxConns
    /\ IF KeptConnection(m_openConnection) # 0
       THEN /\ dlast' = [op |-> "open", ret |-> m_openConnection,
                         had |-> OpenConns]
            /\ UNCHANGED <<m_openConnection, conns>>
       ELSE /\ m_openConnection' = 0
            /\ conns' = IF ok
                        THEN Append(conns, [open |-> TRUE, timeout |-> timeout])
                        ELSE conns
            /\ dlast' = [op |-> "open",
                         ret |-> IF ok THEN Len(conns) + 1 ELSE 0,
                         had |-> OpenConns]
    /\ UNCHANGED <<portVars, fwdVars, rateVars, closeCalls, charVars, bridgeVars,
                   waitVars, toVars>>

\* A connection stops being open: its Close (part_000 445-451) was called or
\* the link was lost.
DevConnectionEnds(c) ==
    /\ c \in OpenConns
    /\ conns' = [conns EXCEPT ![c].open = FALSE]
    /\ UNCHANGED <<m_openConnection, dlast>>
    /\ UNCHANGED <<portVars, fwdVars, rateVars, closeCalls, charVars, bridgeVars,
                   waitVars, toVars>>

NextDevice ==
    \/ DevGetOpenConnection
    \/ \E timeout \in Timeouts, ok \in BOOLEAN : DevOpenConnection(timeout, ok)
    \/ \E c \in 1..MaxConns : DevConnectionEnds(c)

InitDeviceAlone ==
    /\ InitPort("null") /\ InitChar /\ InitNoBridge /\ InitNoWait
    /\ InitDevice /\ InitNoTimeouts

SpecDevice == InitDeviceAlone /\ [][NextDevice]_vars

-----------------------------------------------------------------------------
\* Connect (part_001 97-160) and main's catch clauses (part_001 259-268)

portRest == <<m_callbacks, m_exiting, m_mutex, joinable, ppc, data, idx, snapshot,
              delivered, cret, crashed, ids, nextL, spawned, lastUnsub, zeroed,
              resub, faulted>>

\* The port is not yet constructed, the connection not yet opened.
InitBridge ==
    /\ InitPort("null")
    /\ InitChar
    /\ InitNoWait
    /\ InitDevice
    /\ timeoutArg \in Timeouts
    /\ m_timeout = 0
    /\ applied = {}
    /\ bpc = "find"
    /\ sigintReceived = FALSE
    /\ steps = <<>>
    /\ unwindTo = "exit1"
    /\ exitStatus = -1
    /\ missing = "none"

Running == bpc # "none" /\ ~crashed /\ exitStatus = -1

\* A lookup whose result is used without the test for empty.
FoundAlways(p) == TRUE

\* Lines 102, 113, 123: if (!deviceOptional), if (!service),
\* if (!characteristic)
Found(p) == p

\* Lines 101-105: FindDevice; not found returns 1.
BFindDevice(found) ==
    /\ Running /\ bpc = "find"
    /\ IF Found(found)
       THEN bpc' = "open_conn" /\ UNCHANGED exitStatus
       ELSE bpc' = "exited" /\ exitStatus' = 1
    /\ missing' = IF found THEN missing ELSE "device"
    /\ UNCHANGED <<portVars, fwdVars, rateVars, closeCalls, charVars, sigintReceived, steps, unwindTo>>
    /\ UNCHANGED <<waitVars, devVars, timeoutArg, m_timeout>>
    /\ applied' = applied \cup {<<"find", timeoutArg>>}

\* Line 108: deviceOptional.value()->OpenConnection() takes no argument, and
\* IBluetoothDevice::OpenConnection() (part_000 797-800) calls
\* OpenConnection(DefaultTimeout).
ConnectOpensWith(arg) == DefaultTimeout

\* Line 108: OpenConnection; a BluetoothException ends in main's catch. The
\* two WaitWithTimeout calls of part_000 414-415 get the timeout, which the
\* connection keeps (part_000 420, 430-436) and hands to its services and
\* their characteristics (part_000 436, 521).
BOpenConnection(ok) ==
    /\ Running /\ bpc = "open_conn"
    /\ IF ok
       THEN bpc' = "get_service" /\ connOpen' = TRUE /\ UNCHANGED exitStatus
       ELSE bpc' = "exited" /\ exitStatus' = 1 /\ UNCHANGED connOpen
    /\ UNCHANGED <<portVars, fwdVars, rateVars, closeCalls, m_subscribers, handlers, cccd,
                   charCalls, sigintReceived, missing, steps, unwindTo>>
    /\ UNCHANGED <<waitVars, devVars, timeoutArg>>
    /\ applied' = applied \cup {<<"connect", ConnectOpensWith(timeoutArg)>>,
                              <<"discover", ConnectOpensWith(timeoutArg)>>}
    /\ m_timeout' = IF ok THEN ConnectOpensWith(timeoutArg) ELSE m_timeout

\* Lines 112-116: GetService; an empty pointer returns 1.
BGetService(found) ==
    /\ Running /\ bpc = "get_service"
    /\ IF Found(found)
       THEN bpc' = "fetch" /\ UNCHANGED exitStatus
       ELSE bpc' = "exited" /\ exitStatus' = 1
    /\ missing' = IF found THEN missing ELSE "service"
    /\ UNCHANGED <<portVars, fwdVars, rateVars, closeCalls, charVars, sigintReceived, steps, unwindTo>>
    /\ UNCHANGED <<waitVars, devVars, toVars>>

\* Line 119: FetchCharacteristics; a BluetoothException ends in main's catch.
BFetchCharacteristics(ok) ==
    /\ Running /\ bpc = "fetch"
    /\ IF ok
       THEN bpc' = "get_char" /\ UNCHANGED exitStatus
       ELSE bpc' = "exited" /\ exitStatus' = 1
    /\ UNCHANGED <<portVars, fwdVars, rateVars, closeCalls, charVars, sigintReceived, missing, steps, unwindTo>>
    /\ UNCHANGED <<waitVars, devVars, timeoutArg, m_timeout>>
    /\ applied' = applied \cup {<<"fetch", m_timeout>>}

\* Lines 122-126: GetCharacteristic; an empty pointer returns 1.
BGetCharacteristic(found) ==
    /\ Running /\ bpc = "get_char"
    /\ IF Found(found)
       THEN bpc' = "open_port" /\ UNCHANGED exitStatus
       ELSE bpc' = "exited" /\ exitStatus' = 1
    /\ missing' = IF found THEN missing ELSE "characteristic"
    /\ UNCHANGED <<portVars, fwdVars, rateVars, closeCalls, charVars, sigintReceived, steps, unwindTo>>
    /\ UNCHANGED <<waitVars, devVars, toVars>>

\* Lines 129-130: COMPort port { ... }; the constructor throws COMException
\* when the port cannot be opened. Then port.SetRefreshRate(refresh): no thread
\* exists yet, so m_mutex is free.
BOpenPort(ok, refresh) ==
    /\ Running /\ bpc = "open_port"
    /\ IF ok
       THEN /\ bpc' = "sub_char" /\ m_handle' = "open"
            /\ m_refreshRate' = refresh
            /\ rateLog' = [rateLog EXCEPT !.set = refresh]
            /\ UNCHANGED exitStatus
       ELSE /\ bpc' = "exited" /\ exitStatus' = 1
            /\ UNCHANGED <<m_handle, m_refreshRate, rateLog>>
    /\ UNCHANGED <<portRest, cpc, carg, inDtor, fwdVars, sleepFor, readFailed, closeCalls,
                   charVars,
                   sigintReceived, missing, steps, unwindTo>>
    /\ UNCHANGED <<waitVars, devVars, toVars>>

\* Where Connect goes when characteristic->Subscribe or port.Subscribe throws:
\* nothing in Connect catches, so the exception unwinds Connect's locals (the
\* port) on its way out.
OnSubscribeFailure == "unwind"

\* Lines 133-135: characteristic->Subscribe(listener writing to the port).
BSubscribeChar(w) ==
    /\ Running /\ bpc = "sub_char"
    /\ IF SubscribeWritesDescriptor(m_subscribers) /\ w = "fail"
       THEN /\ bpc' = OnSubscribeFailure
            /\ unwindTo' = "exit1"
            /\ UNCHANGED <<m_subscribers, handlers, cccd>>
       ELSE /\ bpc' = "sub_port"
            /\ cccd' = IF SubscribeWritesDescriptor(m_subscribers)
                       THEN DescriptorAfter(cccd, "Notify", w) ELSE cccd
            /\ handlers' = handlers \cup {Len(m_subscribers) + 1}
            /\ m_subscribers' = CharSubscribed(m_subscribers, Len(m_subscribers) + 1)
            /\ UNCHANGED unwindTo
    /\ UNCHANGED <<portVars, fwdVars, rateVars, closeCalls, connOpen, charCalls, sigintReceived, missing,
                   steps, exitStatus>>
    /\ UNCHANGED <<waitVars, devVars, timeoutArg, m_timeout>>
    /\ applied' = IF SubscribeWritesDescriptor(m_subscribers)
                  THEN applied \cup {<<"descriptor", m_timeout>>} ELSE applied

\* Lines 138-140: port.Subscribe(listener writing to the characteristic).
BCallPortSubscribe ==
    /\ Running /\ bpc = "sub_port" /\ cpc = "idle"
    /\ cpc' = "sub_lock"
    /\ carg' = nextL
    /\ bpc' = "sub_port_ret"
    /\ UNCHANGED <<portRest, m_handle, inDtor, fwdVars, rateVars, closeCalls, charVars,
                   sigintReceived, missing, steps, unwindTo, exitStatus>>
    /\ UNCHANGED <<waitVars, devVars, toVars>>

\* port.Subscribe has returned or thrown. A std::system_error is caught
\* nowhere, so std::terminate follows; whether the stack is unwound first is
\* implementation-defined (unwinds).
BPortSubscribeReturned(unwinds) ==
    /\ Running /\ bpc = "sub_port_ret" /\ cpc = "idle"
    /\ IF cret[1] = "ok"
       THEN bpc' = "working" /\ UNCHANGED <<unwindTo, crashed, exitStatus>>
       ELSE IF unwinds
            THEN /\ bpc' = OnSubscribeFailure
                 /\ unwindTo' = "terminate"
                 /\ UNCHANGED <<crashed, exitStatus>>
            ELSE /\ bpc' = "exited"
                 /\ crashed' = TRUE
                 /\ exitStatus' = 3
                 /\ UNCHANGED unwindTo
    /\ UNCHANGED <<m_callbacks, m_exiting, m_mutex, m_handle, joinable, ppc, data,
                   idx, snapshot, delivered, cpc, carg, cret, inDtor, ids, nextL,
                   spawned, lastUnsub, zeroed, resub, faulted, fwdVars, rateVars, closeCalls,
                   charVars, sigintReceived, missing, steps>>
    /\ UNCHANGED <<waitVars, devVars, toVars>>

\* SigintHandler (part_001 13-16), installed at line 144.
BSigint ==
    /\ Running /\ bpc = "working" /\ ~sigintReceived
    /\ sigintReceived' = TRUE
    /\ UNCHANGED <<portVars, fwdVars, rateVars, closeCalls, charVars, bpc, steps, unwindTo,
                   exitStatus, missing>>
    /\ UNCHANGED <<waitVars, devVars, toVars>>

\* A wait loop that does not look at the flag.
LoopEndsAlways(flag) == TRUE

\* Line 146: while (!sigintReceived.load())
LoopEnds(flag) == flag

\* Lines 146-150: the wait loop ends once the flag is read as true.
BWorkingDone ==
    /\ Running /\ bpc = "working" /\ LoopEnds(sigintReceived)
    /\ bpc' = "td_ua"
    /\ UNCHANGED <<portVars, fwdVars, rateVars, closeCalls, charVars, sigintReceived, missing, steps,
                   unwindTo, exitStatus>>
    /\ UNCHANGED <<waitVars, devVars, toVars>>

\* Line 152: port.UnsubscribeAll()
BTeardownUnsubscribeAll ==
    /\ Running /\ bpc = "td_ua" /\ cpc = "idle"
    /\ cpc' = "ua_write"
    /\ steps' = Append(steps, "port_ua")
    /\ bpc' = "td_ua_ret"
    /\ UNCHANGED <<portRest, m_handle, carg, inDtor, fwdVars, rateVars, closeCalls, charVars,
                   sigintReceived, missing, unwindTo, exitStatus>>
    /\ UNCHANGED <<waitVars, devVars, toVars>>

\* Connect that goes on while the call it made is still running.
CallDetached(c) == TRUE

\* port.UnsubscribeAll() is an ordinary call on Connect's thread: line 153 is
\* reached when it has returned.
CallReturned(c) == c = "idle"

BTeardownUnsubscribeAllReturned ==
    /\ Running /\ bpc = "td_ua_ret" /\ CallReturned(cpc)
    /\ bpc' = "td_close"
    /\ UNCHANGED <<portVars, fwdVars, rateVars, closeCalls, charVars, sigintReceived, missing, steps,
                   unwindTo, exitStatus>>
    /\ UNCHANGED <<waitVars, devVars, toVars>>

\* Line 153: port.Close()
BTeardownClosePort ==
    /\ Running /\ bpc = "td_close"
    /\ m_handle' = HandleAfterClose(m_handle)
    /\ closeCalls' = CallsAfterClose(closeCalls, m_handle, "Close")
    /\ steps' = Append(steps, "port_close")
    /\ bpc' = "td_char_ua"
    /\ UNCHANGED <<portRest, cpc, carg, inDtor, fwdVars, rateVars, charVars,
                   sigintReceived, missing, unwindTo, exitStatus>>
    /\ UNCHANGED <<waitVars, devVars, toVars>>

\* Where Connect goes when a teardown call throws: as everywhere in Connect,
\* the exception leaves the function.
OnTeardownFailure == "unwind"

\* Line 155: characteristic->UnsubscribeAll()
BTeardownCharUnsubscribeAll(w) ==
    /\ Running /\ bpc = "td_char_ua"
    /\ handlers' = CharHandlersAfterUnsubscribeAll(handlers, m_subscribers)
    /\ m_subscribers' = <<>>
    /\ cccd' = DescriptorAfter(cccd, "None", w)
    /\ steps' = Append(steps, "char_ua")
    /\ IF w = "ok"
       THEN bpc' = "td_conn_close" /\ UNCHANGED unwindTo
       ELSE bpc' = OnTeardownFailure /\ unwindTo' = "exit1"
    /\ UNCHANGED <<portVars, fwdVars, rateVars, closeCalls, connOpen, charCalls, sigintReceived, missing,
                   exitStatus>>
    /\ UNCHANGED <<waitVars, devVars, timeoutArg, m_timeout>>
    /\ applied' = applied \cup {<<"descriptor", m_timeout>>}

\* Line 156: connection->Close() (part_000 445-451); then "Good bye!" and
\* return 0, which destroys the port.
BTeardownCloseConnection(ok) ==
    /\ Running /\ bpc = "td_conn_close"
    /\ steps' = Append(steps, "conn_close")
    /\ connOpen' = (connOpen /\ ~ok)
    /\ bpc' = "unwind"
    /\ unwindTo' = IF ok THEN "exit0" ELSE "exit1"
    /\ UNCHANGED <<portVars, fwdVars, rateVars, closeCalls, m_subscribers, handlers, cccd,
                   charCalls, sigintReceived, missing, exitStatus>>
    /\ UNCHANGED <<waitVars, devVars, toVars>>

\* Connect is left, by return or by exception: ~COMPort runs.
BUnwindPort ==
    /\ Running /\ bpc = "unwind" /\ cpc = "idle"
    /\ cpc' = "ua_write"
    /\ inDtor' = TRUE
    /\ bpc' = "unwind_ret"
    /\ UNCHANGED <<portRest, m_handle, carg, fwdVars, rateVars, closeCalls, charVars,
                   sigintReceived, missing, steps, unwindTo, exitStatus>>
    /\ UNCHANGED <<waitVars, devVars, toVars>>

\* The status the run ends with.
StatusOf(u) == IF u = "exit0" THEN 0 ELSE IF u = "exit1" THEN 1 ELSE 3

BExit ==
    /\ Running /\ bpc = "unwind_ret" /\ cpc = "destroyed"
    /\ bpc' = "exited"
    /\ exitStatus' = StatusOf(unwindTo)
    /\ crashed' = (unwindTo = "terminate")
    /\ UNCHANGED <<m_callbacks, m_exiting, m_mutex, m_handle, joinable, ppc, data,
                   idx, snapshot, delivered, cpc, carg, cret, inDtor, ids, nextL,
                   spawned, lastUnsub, zeroed, resub, faulted, fwdVars, rateVars, closeCalls,
                   charVars, sigintReceived, missing, steps, unwindTo>>
    /\ UNCHANGED <<waitVars, devVars, toVars>>

\* What the characteristic's listener does (part_001 133-135): it calls
\* port.Write(data) (bluetooth.hpp 1110-1116); "port" records a write made
\* on a handle that was closed.
NotifyWrites(h) == IF h = "null" THEN {"port"} ELSE {}

\* The handler's copy with the last byte left out.
BufferToVectorShort(v) == SubSeq(v, 1, Len(v) - 1)

\* part_000 591-594: the handler copies the Length() bytes of
\* args.CharacteristicValue() into a vector.
BufferToVector(v) == [i \in 1..Len(v) |-> v[i]]

\* part_000 596 and part_001 133-135: each registered handler calls its
\* listener with the vector, and the listener calls port.Write(data) once.
HandlerWrites(h, v) == [i \in 1..Cardinality(h) |-> BufferToVector(v)]

\* The BLE transport delivers a notification on its own thread: every
\* registered ValueChanged handler runs (part_000 590-597).
BNotify(chunk) ==
    /\ Running /\ connOpen /\ cccd = "Notify" /\ handlers # {}
    /\ closedWrites' = closedWrites \cup NotifyWrites(m_handle)
    /\ tunnel' = [tunnel EXCEPT !.nin = chunk,
                                !.nout = HandlerWrites(handlers, chunk),
                                !.writers = tunnel.writers \cup {"ble"}]
    /\ UNCHANGED <<portVars, rateVars, closeCalls, charVars, bridgeVars>>
    /\ UNCHANGED <<waitVars, devVars, toVars>>

BridgeStep ==
    \/ \E found \in BOOLEAN : BFindDevice(found)
    \/ \E ok \in BOOLEAN : BOpenConnection(ok)
    \/ \E found \in BOOLEAN : BGetService(found)
    \/ \E ok \in BOOLEAN : BFetchCharacteristics(ok)
    \/ \E found \in BOOLEAN : BGetCharacteristic(found)
    \/ \E ok \in BOOLEAN, refresh \in Rates \cup {DefaultRefreshRate} :
           BOpenPort(ok, refresh)
    \/ \E w \in {"ok", "fail"} : BSubscribeChar(w)
    \/ BCallPortSubscribe
    \/ \E unwinds \in BOOLEAN : BPortSubscribeReturned(unwinds)
    \/ BSigint
    \/ BWorkingDone
    \/ BTeardownUnsubscribeAll
    \/ BTeardownUnsubscribeAllReturned
    \/ BTeardownClosePort
    \/ \E w \in {"ok", "fail"} : BTeardownCharUnsubscribeAll(w)
    \/ \E ok \in BOOLEAN : BTeardownCloseConnection(ok)
    \/ BUnwindPort
    \/ BExit
    \/ \E chunk \in Chunks : BNotify(chunk)

\* The COMPort functions Connect calls. Connect never calls Unsubscribe.
BridgePortBody ==
    \/ \E ok \in BOOLEAN : SubscribeBody(ok)
    \/ UnsubscribeAllFlag
    \/ UnsubscribeAllBody
    \/ UnsubscribeAllJoin
    \/ DestructorClose

\* The poll thread in a bridge. Its list is emptied only by UnsubscribeAll,
\* which sets m_exiting first, so the thread never reaches the wait of line 53
\* and the two wake-up steps are left out.
BridgePollStep ==
    \/ PollLock
    \/ PollCheckExit
    \/ PollCheckEmpty
    \/ \E r \in {<<>>} \cup Chunks : PollRead(r)
    \/ PollSleep
    \/ \E out \in {"ok", "throw"} : PollDeliver(out)

NextBridge == BridgeStep \/ BridgePortBody \/ BridgePollStep

SpecBridge == InitBridge /\ [][NextBridge]_vars

\* The steps of the thread that runs Connect (the signal and the BLE
\* notifications come from outside).
ConnectStep ==
    \/ \E found \in BOOLEAN : BFindDevice(found)
    \/ \E ok \in BOOLEAN : BOpenConnection(ok)
    \/ \E found \in BOOLEAN : BGetService(found)
    \/ \E ok \in BOOLEAN : BFetchCharacteristics(ok)
    \/ \E found \in BOOLEAN : BGetCharacteristic(found)
    \/ \E ok \in BOOLEAN, refresh \in Rates \cup {DefaultRefreshRate} :
           BOpenPort(ok, refresh)
    \/ \E w \in {"ok", "fail"} : BSubscribeChar(w)
    \/ BCallPortSubscribe
    \/ \E unwinds \in BOOLEAN : BPortSubscribeReturned(unwinds)
    \/ BWorkingDone
    \/ BTeardownUnsubscribeAll
    \/ BTeardownUnsubscribeAllReturned
    \/ BTeardownClosePort
    \/ \E w \in {"ok", "fail"} : BTeardownCharUnsubscribeAll(w)
    \/ \E ok \in BOOLEAN : BTeardownCloseConnection(ok)
    \/ BUnwindPort
    \/ BExit

\* Both threads are scheduled whenever they can run, and a thread that keeps
\* finding m_mutex free from time to time eventually acquires it.
SpecBridgeFair ==
    /\ SpecBridge
    /\ WF_vars(ConnectStep)
    /\ SF_vars(BridgePortBody)
    /\ WF_vars(BridgePollStep)

-----------------------------------------------------------------------------
\* WaitWithTimeout (part_000 209-237) with WINRT_CALL_END (part_000 246-256),
\* and the asynchronous operation it waits for.

otherVars == <<portVars, fwdVars, rateVars, closeCalls, charVars, bridgeVars,
               devVars, toVars>>

AsyncTerminal == {"Completed", "Error", "Canceled"}

ErrorCodes == 1..MaxCode

InitWait ==
    /\ InitPort("open") /\ InitChar /\ InitNoBridge
    /\ InitDevice /\ InitNoTimeouts
    /\ wpc = "register"
    /\ wstatus \in {"Started"} \cup AsyncTerminal
    /\ wcode \in ErrorCodes
    /\ wreg = FALSE
    /\ wcb = "idle"
    /\ wmutex = "none"
    /\ wnow = 0
    /\ wdeadline = 0
    /\ woutcome = <<"none">>
    /\ wendStatus = "none"
    /\ wendTime = 0
    /\ wcompletedAt = IF wstatus = "Started" THEN -1 ELSE 0
    /\ wdangling = FALSE

\* Lines 214-217: task.Completed(handler)
WRegister ==
    /\ wpc = "register"
    /\ wreg' = TRUE
    /\ wpc' = "deadline"
    /\ UNCHANGED <<wstatus, wcode, wcb, wmutex, wnow, wdeadline, woutcome,
                   wendStatus, wendTime, wcompletedAt, wdangling, otherVars>>

\* Line 219: deadline = now() + timeout
DeadlineOf(now, timeout) == now + timeout

WDeadline ==
    /\ wpc = "deadline"
    /\ wdeadline' = DeadlineOf(wnow, Timeout)
    /\ wpc' = "loop_time"
    /\ UNCHANGED <<wstatus, wcode, wreg, wcb, wmutex, wnow, woutcome, wendStatus,
                   wendTime, wcompletedAt, wdangling, otherVars>>

\* BeforeDeadline of a loop that ignores the deadline.
BeforeDeadlineAlways(now, deadline) == now < deadline + MaxTime + 1

\* Line 221, left operand: now() < deadline
BeforeDeadline(now, deadline) == now < deadline

WLoopTime ==
    /\ wpc = "loop_time"
    /\ wpc' = IF BeforeDeadline(wnow, wdeadline) THEN "loop_status" ELSE "switch"
    /\ UNCHANGED <<wstatus, wcode, wreg, wcb, wmutex, wnow, wdeadline, woutcome,
                   wendStatus, wendTime, wcompletedAt, wdangling, otherVars>>

\* Line 221, right operand: task.Status() == AsyncStatus::Started, read without
\* the mutex.
WLoopStatus ==
    /\ wpc = "loop_status"
    /\ wpc' = IF wstatus = "Started" THEN "lock" ELSE "switch"
    /\ UNCHANGED <<wstatus, wcode, wreg, wcb, wmutex, wnow, wdeadline, woutcome,
                   wendStatus, wendTime, wcompletedAt, wdangling, otherVars>>

\* Line 222: std::unique_lock lock { mutex }
WLock ==
    /\ wpc = "lock" /\ wmutex = "none"
    /\ wmutex' = "waiter"
    /\ wpc' = "wait"
    /\ UNCHANGED <<wstatus, wcode, wreg, wcb, wnow, wdeadline, woutcome,
                   wendStatus, wendTime, wcompletedAt, wdangling, otherVars>>

\* Line 223: condition.wait_until(lock, deadline); past the deadline it
\* returns at once, otherwise it releases the mutex and blocks.
WWait ==
    /\ wpc = "wait"
    /\ IF BeforeDeadline(wnow, wdeadline)
       THEN wpc' = "blocked" /\ wmutex' = "none"
       ELSE wpc' = "unlock" /\ UNCHANGED wmutex
    /\ UNCHANGED <<wstatus, wcode, wreg, wcb, wnow, wdeadline, woutcome,
                   wendStatus, wendTime, wcompletedAt, wdangling, otherVars>>

\* wait_until wakes at the deadline.
WWakeDeadline ==
    /\ wpc = "blocked" /\ ~BeforeDeadline(wnow, wdeadline)
    /\ wpc' = "reacquire"
    /\ UNCHANGED <<wstatus, wcode, wreg, wcb, wmutex, wnow, wdeadline, woutcome,
                   wendStatus, wendTime, wcompletedAt, wdangling, otherVars>>

\* wait_until may wake without a notify.
WWakeSpurious ==
    /\ wpc = "blocked" /\ BeforeDeadline(wnow, wdeadline)
    /\ wpc' = "reacquire"
    /\ UNCHANGED <<wstatus, wcode, wreg, wcb, wmutex, wnow, wdeadline, woutcome,
                   wendStatus, wendTime, wcompletedAt, wdangling, otherVars>>

\* wait_until re-acquires the mutex before it returns.
WReacquire ==
    /\ wpc = "reacquire" /\ wmutex = "none"
    /\ wmutex' = "waiter"
    /\ wpc' = "unlock"
    /\ UNCHANGED <<wstatus, wcode, wreg, wcb, wnow, wdeadline, woutcome,
                   wendStatus, wendTime, wcompletedAt, wdangling, otherVars>>

\* Line 224: the lock goes out of scope; back to the loop condition.
WUnlock ==
    /\ wpc = "unlock"
    /\ wmutex' = "none"
    /\ wpc' = "loop_time"
    /\ UNCHANGED <<wstatus, wcode, wreg, wcb, wnow, wdeadline, woutcome,
                   wendStatus, wendTime, wcompletedAt, wdangling, otherVars>>

\* Outcome with the Canceled case missing from the switch: it falls to default.
OutcomeCancelAsTimeout(st, code) ==
    CASE st = "Completed" -> <<"Result">>
      [] st = "Error" -> <<"TransportError", code>>
      [] OTHER -> <<"Timeout">>

\* Lines 226-235 and WINRT_CALL_END: the result for Completed; hresult_error
\* with task.ErrorCode(), rethrown as a BluetoothException that carries the
\* code; "Operation cancelled"; "Operation timed out" for anything else.
Outcome(st, code) ==
    CASE st = "Completed" -> <<"Result">>
      [] st = "Error" -> <<"TransportError", code>>
      [] st = "Canceled" -> <<"Cancelled">>
      [] OTHER -> <<"Timeout">>

WSwitch ==
    /\ wpc = "switch"
    /\ woutcome' = Outcome(wstatus, wcode)
    /\ wendStatus' = wstatus
    /\ wendTime' = wnow
    /\ wpc' = "returned"
    /\ UNCHANGED <<wstatus, wcode, wreg, wcb, wmutex, wnow, wdeadline,
                   wcompletedAt, wdangling, otherVars>>

\* The platform ends the operation.
WComplete(st) ==
    /\ wpc # "none" /\ wstatus = "Started"
    /\ wstatus' = st
    /\ wcompletedAt' = wnow
    /\ UNCHANGED <<wpc, wcode, wreg, wcb, wmutex, wnow, wdeadline, woutcome,
                   wendStatus, wendTime, wdangling, otherVars>>

\* notify_all as seen by the waiting thread
WNotifyAll(p) == IF p = "blocked" THEN "reacquire" ELSE p

\* Lines 214-217, the handler: lock the mutex, notify_all, unlock. The platform
\* invokes it once the operation has ended. It holds references to the
\* caller's locals, which are gone once the call has returned.
WCallback ==
    /\ wreg /\ wstatus \in AsyncTerminal /\ wcb = "idle"
    /\ wmutex = "none"
    /\ wpc' = WNotifyAll(wpc)
    /\ wcb' = "done"
    /\ wdangling' = (wpc = "returned")
    /\ UNCHANGED <<wstatus, wcode, wreg, wmutex, wnow, wdeadline, woutcome,
                   wendStatus, wendTime, wcompletedAt, otherVars>>

\* How far the clock runs while the call is at position p: the deadline of
\* line 220 is computed from the clock, so that it stays within MaxTime the
\* clock stops earlier until it has been computed.
ClockLimit(p) == IF p \in {"register", "deadline"} THEN MaxTime - Timeout ELSE MaxTime

\* Time passes.
WTick ==
    /\ wpc # "none" /\ wnow < ClockLimit(wpc)
    /\ wnow' = wnow + 1
    /\ UNCHANGED <<wpc, wstatus, wcode, wreg, wcb, wmutex, wdeadline, woutcome,
                   wendStatus, wendTime, wcompletedAt, wdangling, otherVars>>

NextWait ==
    \/ WRegister
    \/ WDeadline
    \/ WLoopTime
    \/ WLoopStatus
    \/ WLock
    \/ WWait
    \/ WWakeDeadline
    \/ WWakeSpurious
    \/ WReacquire
    \/ WUnlock
    \/ WSwitch
    \/ \E st \in AsyncTerminal : WComplete(st)
    \/ WCallback
    \/ WTick

SpecWait == InitWait /\ [][NextWait]_vars

\* The steps of the thread that called WaitWithTimeout. A wake-up without a
\* notify is not among them: nothing guarantees it.
WaiterStep ==
    \/ WRegister
    \/ WDeadline
    \/ WLoopTime
    \/ WLoopStatus
    \/ WLock
    \/ WWait
    \/ WWakeDeadline
    \/ WReacquire
    \/ WUnlock
    \/ WSwitch

\* The calling thread is scheduled and the clock advances; the operation need
\* never end.
SpecWaitFair == SpecWait /\ WF_vars(WaiterStep) /\ WF_vars(WTick)

-----------------------------------------------------------------------------
\* Properties of the COMPort registry and its poll thread (checked under Spec; C15 under SpecFair,
\* C27 and C36 under SpecRate, C39 under SpecReentrant)

\* The positions in which the poll thread is running its loop.
PollingStates == {"lock", "chk_exit", "chk_empty", "read", "sleep", "deliver"}

\* C1: UnsubscribeAll always returns: no state is reachable in which its
\* caller waits in join() for the poll thread while the poll thread waits for
\* the lock the caller holds.
C1_UnsubscribeAllNeverBlocked ==
    ~(cpc = "ua_join" /\ m_mutex = "client" /\ ppc \in {"lock", "wake"})

\* C2: Unsubscribe(id), called with the id Subscribe returned for a listener
\* that is still registered, removes exactly that listener and no other one.
C2_UnsubscribeRemovesExactlyThat ==
    (cpc = "idle" /\ lastUnsub[2] # <<>>) =>
        lastUnsub[3] = SelectSeq(lastUnsub[2], LAMBDA x : x # lastUnsub[1])

\* C3: once the poll thread is done with a chunk it read, every listener that
\* was registered has been invoked exactly once with that chunk, in
\* subscription order.
C3_EveryListenerOnceInOrder ==
    ppc # "deliver" =>
        delivered = [i \in 1..Len(snapshot) |-> <<snapshot[i], data>>]

\* The chunks listener l has been called with since the last non-empty read.
ReceivedBy(l) == SelectSeq(delivered, LAMBDA e : e[1] = l)

\* C26: whenever the poll thread is not in the middle of a delivery, each
\* listener that was registered at its last non-empty read has received that
\* read's chunk exactly once, whole and alone, so that a listener's sequence of
\* chunks is the thread's sequence of non-empty reads.
C26_ListenerSeesEveryReadOnce ==
    ppc # "deliver" =>
        \A i \in 1..Len(snapshot) :
            ReceivedBy(snapshot[i]) = <<<<snapshot[i], data>>>>

\* C27: the stored rate is the one the last returned SetRefreshRate gave (100
\* if none), GetRefreshRate returned the rate that was in force when it
\* returned, and a sleep in progress holds m_mutex and lasts the rate in force,
\* which no SetRefreshRate can change until the sleep is over.
C27_RefreshRateTakesEffect ==
    /\ m_refreshRate = rateLog.set
    /\ rateLog.got # 0 => rateLog.got = rateLog.at
    /\ ppc = "sleep" => m_mutex = "poll" /\ sleepFor = rateLog.set
    /\ ppc # "sleep" => sleepFor = 0

\* Witness of C27: GetRefreshRate returned 200 after a SetRefreshRate(200),
\* SetRefreshRate(50) returned later, the poll thread now sleeps for 50 and a
\* SetRefreshRate(200) call is waiting for the lock.
C27_Witness ==
    /\ rateLog.got = 200 /\ rateLog.set = 50
    /\ ppc = "sleep" /\ sleepFor = 50
    /\ cpc = "rate_set" /\ carg = 200

\* C30: however many times Close runs (called directly or by the destructor),
\* CloseHandle has been called at most once, and it has been called exactly
\* when the port is marked closed; so a Close on a closed port makes no OS call
\* and leaves the handle as it is.
C30_CloseIdempotent ==
    /\ Len(closeCalls) <= 1
    /\ m_handle = "null" <=> Len(closeCalls) = 1

\* Witness of C30: the port was closed by an explicit Close, and the
\* destructor's Close that followed made no second CloseHandle call.
C30_Witness ==
    /\ cpc = "destroyed" /\ m_handle = "null" /\ closeCalls = <<"Close">>

\* C31: while the poll thread sleeps between reads or is inside a listener
\* callback it does not hold m_mutex, so no caller waits for the lock for the
\* length of a sleep or of a forwarded write.
C31_NoLockWhileSleepingOrCalling ==
    ppc \in {"sleep", "deliver"} => m_mutex # "poll"

\* C32: no step writes the listener list, the exit flag or the refresh rate
\* while another thread (the poll thread) holds m_mutex: every write of the
\* shared registry state is made by a thread that has the lock.
C32_SharedStateUnderLock ==
    [][(\/ m_callbacks' # m_callbacks
        \/ m_exiting' # m_exiting
        \/ m_refreshRate' # m_refreshRate) => m_mutex # "poll"]_vars

\* C34: a read of the port that failed is never treated as an empty read: the
\* poll thread does not go to its sleep and retry after a failed ReadFile.
C34_ReadFailureNotRetried == ~(ppc = "sleep" /\ readFailed)

\* C35: no poll thread exists before one is started; a thread is started only
\* by a step that finds no poll thread alive, and that step starts exactly one;
\* the first Subscribe that returns normally has started the first thread.
C35_AtMostOnePollThread ==
    [][/\ spawned' # spawned =>
            /\ ppc = "none" /\ ~joinable
            /\ spawned' = spawned + 1
            /\ ppc' = "lock" /\ joinable'
       /\ spawned' = 0 => ppc' = "none"
       /\ (cpc = "sub_lock" /\ cpc' = "idle" /\ spawned = 0 /\ cret' # <<"throw">>)
            => spawned' = 1]_vars

\* Witness of C35: a second poll thread has been started, after UnsubscribeAll
\* had joined the first, and is running alone.
C35_Witness == spawned = 2 /\ ppc = "chk_exit" /\ joinable /\ m_callbacks # <<>>

\* C36: a read of zero bytes is followed by a sleep of the configured refresh
\* rate, a read of a chunk by its delivery, and the poll thread comes back to
\* the top of its loop only from a finished sleep or from a delivery that has
\* reached the last listener.
C36_NoBusySpin ==
    [][/\ (ppc = "read" /\ ppc' # "read") =>
            \/ ppc' = "sleep" /\ sleepFor' = m_refreshRate /\ data' = data
            \/ ppc' = "deliver" /\ data' # <<>> /\ delivered' = <<>>
       /\ (ppc' = "lock" /\ ppc \notin {"lock", "none"}) =>
            \/ ppc = "sleep" /\ sleepFor = m_refreshRate
            \/ ppc = "deliver" /\ Len(delivered') = Len(m_callbacks)]_vars

\* Witness of C36: a chunk was delivered without a sleep, and after a later
\* empty read the poll thread sleeps for the rate that was set meanwhile.
C36_Witness ==
    /\ ppc = "sleep" /\ sleepFor = 50 /\ ~readFailed
    /\ delivered # <<>> /\ rateLog.set = 50

\* C37: the ids Subscribe returned for the listeners that are registered now
\* are pairwise distinct.
C37_RegisteredIdsDistinct ==
    \A l1, l2 \in Range(m_callbacks) :
        (l1 # l2 /\ ids[l1] >= 0 /\ ids[l2] >= 0) => ids[l1] # ids[l2]

\* C39: a listener that calls a locking function of its COMPort from inside a
\* delivery gets the call back: the poll thread is never stuck in, or ended by,
\* the lock such a call takes.
C39_ReentrantCallReturns == ppc # "relock"

\* C4: after Unsubscribe has brought the listener count back to zero, a
\* Subscribe that returned normally leaves the new listener with a running
\* poll thread (one that can read the port and deliver to it).
C4_ResubscribeIsPolled ==
    (resub /\ cpc = "idle" /\ ~crashed /\ ~faulted /\ ~m_exiting) =>
        ppc \in PollingStates \cup {"waiting", "wake"}

\* C5: with no call in progress, a non-empty listener list has a poll thread
\* that is alive and polling, and with an empty list no poll thread is reading
\* the port.
C5_RegistryInvariant ==
    (cpc = "idle" /\ ~crashed /\ ~faulted) =>
        IF m_callbacks # <<>>
        THEN ppc \in PollingStates
        ELSE ppc \notin {"read", "sleep", "deliver"}

\* The listeners that were registered once and are no longer.
Removed == (1..(nextL - 1)) \ Range(m_callbacks)

\* C12: once Unsubscribe has returned, the listener it removed is never invoked
\* again: whenever the poll thread is about to invoke a listener, the list it
\* walks is the one the chunk was read with (no Unsubscribe has returned since
\* the delivery began) and the listener it invokes next is in that list.
C12_RemovedNeverInvoked ==
    ppc = "deliver" =>
        /\ m_callbacks = snapshot
        /\ idx \in 1..Len(m_callbacks)
        /\ \A i \in 1..Len(delivered) : delivered[i][1] \notin Removed

\* Witness of C12: an Unsubscribe has returned and removed a listener, and the
\* poll thread is delivering a chunk it read afterwards to the remaining ones.
C12_Witness ==
    /\ ppc = "deliver" /\ cpc = "idle" /\ delivered # <<>>
    /\ lastUnsub[2] # <<>> /\ lastUnsub[3] # lastUnsub[2]
    /\ Removed # {}

\* C13: Unsubscribe of one listener leaves the others registered in their
\* order: a chunk read after Unsubscribe returned for listener l (and before
\* any other change of the list) is delivered to the listeners that were
\* registered before the call without l, in their order, and not to l.
C13_OthersStillReceive ==
    (ppc = "deliver" /\ cpc = "idle" /\ ~crashed /\ ~faulted
        /\ lastUnsub[2] # <<>> /\ m_callbacks = lastUnsub[3]) =>
        snapshot = SelectSeq(lastUnsub[2], LAMBDA x : x # lastUnsub[1])

\* C14: after UnsubscribeAll has returned, a Subscribe that returned normally
\* has a poll thread of its own that keeps polling the port for the new
\* listener (so that bytes read afterwards reach it); the thread does not end
\* while the listener is registered.
C14_FreshSubscribeAfterUnsubscribeAll ==
    (m_exiting /\ cpc = "idle" /\ m_callbacks # <<>> /\ ~crashed /\ ~faulted
        /\ spawned >= 2) =>
        ppc \in PollingStates

\* C15: after Unsubscribe has removed the last listener and returned, the poll
\* thread eventually exits, unless a further call is made on the port.
C15_ThreadExitsAfterLastUnsubscribe ==
    (zeroed /\ cpc = "idle" /\ ~crashed) ~>
        (ppc \in {"done", "terminated"} \/ cpc # "idle" \/ crashed)

\* C19: UnsubscribeAll is idempotent. A call made when the flag is already set,
\* the list empty and no thread left to join (the state a first UnsubscribeAll
\* returns in) changes nothing of the port in any of its steps and returns;
\* and whenever UnsubscribeAll returns, the list is empty and no poll thread
\* exists.
C19_UnsubscribeAllIdempotent ==
    [][/\ (cpc \in {"ua_write", "ua_lock"} /\ m_exiting /\ m_callbacks = <<>>
            /\ ~joinable /\ ~crashed) =>
            /\ UNCHANGED <<m_callbacks, m_exiting, m_mutex, m_handle, joinable, ppc,
                           crashed>>
            /\ cpc' \in {cpc, "ua_lock", AfterUnsubscribeAll(inDtor)}
       /\ (cpc \in {"ua_lock", "ua_join"} /\ cpc' \in {"idle", "dtor_close"}) =>
            m_callbacks' = <<>> /\ ~joinable' /\ ppc' = "none"]_vars

\* Witness of C19: an UnsubscribeAll has joined the poll thread and returned,
\* and a second one is in progress.
C19_Witness ==
    /\ cpc = "ua_lock" /\ m_exiting /\ m_callbacks = <<>> /\ ~joinable
    /\ spawned >= 1 /\ ppc = "none"

\* C21: when the destructor has closed the handle, the poll thread has
\* terminated and has been joined: it can no longer read the port or deliver
\* to a listener.
C21_HandleReleasedAfterJoin ==
    cpc = "destroyed" =>
        /\ ppc = "none" /\ ~joinable
        /\ m_callbacks = <<>>

\* Witness of C21: a port whose poll thread had been started is destroyed.
C21_Witness ==
    cpc = "destroyed" /\ spawned >= 1 /\ m_handle = "null" /\ delivered # <<>>

-----------------------------------------------------------------------------
\* Properties of the bridge orchestrator (checked under SpecBridge; C16 under
\* SpecBridgeFair)

\* The poll thread of a bridge never waits on the condition variable.
BridgePollNeverWaits == ppc \notin {"waiting", "wake"}

\* C6: during and after teardown no forwarded write reaches a side that was
\* already closed: neither
\* port.Write after the port handle was closed, nor characteristic Write after
\* the connection was closed.
C6_NoWriteToClosedSide == steps # <<>> => closedWrites = {}

\* C7: once teardown has begun and the run has ended, the connection has been
\* closed, whichever teardown step failed.
C7_TeardownReachesConnectionClose ==
    (bpc = "exited" /\ ~crashed /\ "port_ua" \in Range(steps)) =>
        "conn_close" \in Range(steps)

\* The four teardown steps of Connect, in the order of part_001 152-156.
TeardownSteps == <<"port_ua", "port_close", "char_ua", "conn_close">>

\* C16: once the cancellation flag is true while the bridge is working, Connect
\* eventually returns, and if no platform call has failed on the way it has
\* completed all four teardown steps and returns 0.
C16_TeardownCompletes ==
    (bpc = "working" /\ sigintReceived) ~>
        \/ crashed
        \/ bpc = "exited" /\ (exitStatus = 0 => steps = TeardownSteps)

\* The prefixes of a sequence.
Prefixes(s) == {SubSeq(s, 1, n) : n \in 0..Len(s)}

\* C22: the teardown steps are executed in the order port UnsubscribeAll, port
\* Close, characteristic UnsubscribeAll, connection Close, each at most once,
\* and while Connect is at one of the later steps the port's UnsubscribeAll has
\* returned.
C22_TeardownOrder ==
    /\ steps \in Prefixes(TeardownSteps)
    /\ bpc \in {"td_close", "td_char_ua", "td_conn_close"} =>
            cpc = "idle" /\ steps # <<>>
    /\ bpc = "td_char_ua" => steps = SubSeq(TeardownSteps, 1, 2)
    /\ bpc = "td_conn_close" => steps = SubSeq(TeardownSteps, 1, 3)

\* Witness of C22: all four steps have been executed.
C22_Witness == steps = TeardownSteps /\ bpc = "exited" /\ exitStatus = 0

\* C23: no teardown step is made, and Connect is at no teardown step, before
\* the cancellation flag is true; and every Write of the tunnel is made by the
\* BLE notification thread or by the poll thread, never by Connect's thread.
C23_NoTeardownBeforeCancel ==
    /\ steps # <<>> => sigintReceived
    /\ bpc \in {"td_ua", "td_ua_ret", "td_close", "td_char_ua", "td_conn_close"}
            => sigintReceived
    /\ (bpc = "working" /\ ~sigintReceived) =>
            cpc = "idle" /\ m_handle = "open" /\ connOpen /\ handlers # {}
    /\ tunnel.writers \subseteq {"ble", "poll"}

\* Witness of C23: the bridge is working, data has flowed in both directions,
\* the flag is not set and no teardown step has been made.
C23_Witness ==
    /\ bpc = "working" /\ ~sigintReceived /\ steps = <<>>
    /\ tunnel.writers = {"ble", "poll"}

\* C24: when the device, the service or the characteristic is not found, the
\* run has ended with a non-zero status and has gone no further: the port was
\* never opened, no poll thread was started and nothing is subscribed on the
\* port or on the characteristic.
C24_LookupFailureAborts ==
    missing # "none" =>
        /\ bpc = "exited" /\ exitStatus \notin {-1, 0}
        /\ m_handle = "null" /\ cpc = "idle"
        /\ m_callbacks = <<>> /\ spawned = 0
        /\ m_subscribers = <<>> /\ handlers = {} /\ cccd = "None"
        /\ steps = <<>>

\* Witness of C24: the connection was opened and the characteristic was not
\* found.
C24_Witness == missing = "characteristic" /\ bpc = "exited" /\ connOpen

\* C25: every chunk the characteristic notifies results in exactly one
\* port.Write call with exactly those bytes, and every non-empty chunk the poll
\* thread reads results, once its delivery is over, in exactly one
\* characteristic Write call with exactly those bytes.
C25_TunnelFidelity ==
    /\ tunnel.nin # <<>> => tunnel.nout = <<tunnel.nin>>
    /\ ppc = "deliver" => tunnel.rin = data /\ tunnel.rout = <<>>
    /\ (tunnel.rin # <<>> /\ ppc # "deliver") => tunnel.rout = <<tunnel.rin>>

\* Witness of C25: while the bridge is working a two-byte chunk has been
\* notified and written to the port, and a chunk read from the port has been
\* written to the characteristic.
C25_Witness ==
    /\ bpc = "working" /\ ~sigintReceived
    /\ tunnel.nin = <<1, MaxByte>> /\ tunnel.nout = <<<<1, MaxByte>>>>
    /\ tunnel.rin # <<>> /\ tunnel.rout = <<tunnel.rin>>

\* C29: every BLE operation Connect has made (finding the device, connecting,
\* service discovery, characteristic fetch, characteristic write, descriptor
\* write) was given the timeout argument of Connect.
C29_ConnectTimeoutApplied == \A e \in applied : e[2] = timeoutArg

\* C33: a listener that fails on the poll thread (the bridge's characteristic
\* Write throwing) never ends the thread in std::terminate: the process is not
\* aborted by a fault of the poll thread.
C33_PollFaultNeverAborts == ~(ppc = "terminated" /\ crashed)

\* C40: when Connect has ended after it had opened the BLE connection, the
\* connection has been closed.
C40_ConnectionClosedOnEveryPath ==
    (bpc = "exited" /\ m_timeout # 0) => ~connOpen

\* C8: the run never ends with an error while the characteristic listener is
\* still registered.
C8_NoHalfBridgeOnError ==
    (bpc = "exited" /\ exitStatus # 0 /\ steps = <<>>) => handlers = {}

-----------------------------------------------------------------------------
\* Properties of WaitWithTimeout (checked under SpecWait; C11 under
\* SpecWaitFair)

\* C9: the call returns the outcome that belongs to the status read when the
\* wait ended: the result for Completed, a transport error with the
\* operation's error code for Error, a cancellation for Canceled, a timeout
\* for Started; a timeout is returned only at or after the deadline, and never
\* for an operation that ended before the deadline.
C9_OutcomeMatchesStatus ==
    wpc = "returned" =>
        /\ wendStatus = "Completed" => woutcome = <<"Result">>
        /\ wendStatus = "Error" => woutcome = <<"TransportError", wcode>>
        /\ wendStatus = "Canceled" => woutcome = <<"Cancelled">>
        /\ wendStatus = "Started" => woutcome = <<"Timeout">>
        /\ woutcome = <<"Timeout">> =>
            /\ wendStatus = "Started"
            /\ wendTime >= wdeadline
            /\ wcompletedAt # -1 => wcompletedAt >= wdeadline

\* Witness of C9: a call has returned each kind of outcome; here the timeout
\* of an operation that ended only after the deadline.
C9_Witness ==
    /\ wpc = "returned" /\ woutcome = <<"Timeout">>
    /\ wcompletedAt >= wdeadline /\ wstatus = "Error"

\* C10: when the operation has ended before the deadline and its completion
\* handler has run, the caller is not left blocked in wait_until.
C10_NoLostWakeup ==
    ~(wpc = "blocked" /\ wstatus \in AsyncTerminal /\ wcb = "done"
        /\ wnow < wdeadline)

\* C11: WaitWithTimeout always returns, also for an operation that never ends:
\* under every interleaving of the completion handler with the calling thread
\* the call eventually returns, and from the moment the clock has reached the
\* deadline it returns without waiting for anything but its own steps.
C11_WaitTerminates ==
    /\ <>(wpc = "returned")
    /\ (wpc \notin {"none", "register", "deadline"} /\ wnow >= wdeadline)
            ~> (wpc = "returned")

\* Witness of C11: the call has returned for an operation that never ended.
C11_Witness ==
    wpc = "returned" /\ wstatus = "Started" /\ wcompletedAt = -1 /\ wnow >= wdeadline

-----------------------------------------------------------------------------
\* Properties of the characteristic's registry (checked under SpecChar)

\* C17: a Subscribe made while no listener is registered writes the descriptor,
\* and if that write fails the error reaches the caller, no ValueChanged
\* handler has been registered and the subscriber list is still empty.
C17_SubscribeAtomicOnEnableFailure ==
    (chlast.op = "Subscribe" /\ chlast.before = <<>>) =>
        /\ chlast.wrote
        /\ chlast.failed =>
            /\ chlast.threw
            /\ m_subscribers = <<>>
            /\ handlers = chlast.hbefore

\* Witness of C17: the first Subscribe has failed to enable notifications.
C17_Witness ==
    /\ chlast.op = "Subscribe" /\ chlast.before = <<>>
    /\ chlast.failed /\ chlast.threw
    /\ m_subscribers = <<>> /\ handlers = {}

\* C18: after every call on the characteristic has returned, with or without
\* an error, notifications are enabled on the device exactly if the subscriber
\* list is not empty.
C18_EnabledIffSubscribers ==
    chlast.op # "none" => (cccd = "Notify" <=> m_subscribers # <<>>)

\* C20: UnsubscribeAll on a characteristic with no registered listener writes
\* no descriptor, changes nothing and does not fail.
C20_UnsubscribeAllOnlyIfEnabled ==
    (chlast.op = "UnsubscribeAll" /\ chlast.before = <<>> /\ chlast.hbefore = {}
        /\ chlast.dbefore = "None") =>
        ~chlast.wrote /\ ~chlast.threw

-----------------------------------------------------------------------------
\* Properties of WindowsBluetoothDevice (checked under SpecDevice)

\* C28: a GetOpenConnection or OpenConnection call made while a connection
\* that OpenConnection returned earlier is still open returns such a
\* connection: not an empty optional, not a newly opened connection, not an
\* exception.
C28_OpenConnectionIsKept ==
    (dlast.op \in {"get", "open"} /\ dlast.had # {}) => dlast.ret \in dlast.had


-----------------------------------------------------------------------------
\* WaitWithTimeout after its return (checked under SpecWait)

\* C38: when the call has returned because of a timeout, the completion
\* handler of the abandoned operation never runs afterwards on the mutex and
\* condition variable that were the call's locals.
C38_HandlerNeverOutlivesCall == ~(woutcome = <<"Timeout">> /\ wdangling)

====
